---- MODULE Spec2Model ----
(***************************************************************************)
(* Model of the URL shortener of src/main.py: a sqlite table               *)
(*     urls (code TEXT PRIMARY KEY, url TEXT NOT NULL)                     *)
(* and the request handlers create_short_url, update_url, delete_url,      *)
(* resolve, manage_page and read_root, with init_db run at every start of  *)
(* the process.  Every request is served by its own handler                *)
(* instance, which opens its own connection (get_db), executes one         *)
(* statement, commits if the statement wrote, and closes the connection.   *)
(* Handler instances of several worker processes interleave at the         *)
(* granularity of these steps; opening the connection touches nothing      *)
(* shared and is taken together with the step before it.                   *)
(*                                                                         *)
(* sqlite semantics modelled:                                              *)
(*  - a connection's INSERT/UPDATE/DELETE opens a transaction and takes    *)
(*    the database write lock, kept until commit or until the connection   *)
(*    is closed (close rolls back); a statement that changes no row or     *)
(*    fails on a constraint keeps the lock as well;                        *)
(*  - a second writer waits for the lock (busy handler of sqlite3.connect, *)
(*    default timeout 5 s); the handlers hold the lock only across         *)
(*    straight-line code, so the wait is modelled as blocking;             *)
(*  - readers see the committed table only.                                *)
(***************************************************************************)
EXTENDS Integers, Sequences, FiniteSets, TLC

\* ---------------------------------------------------------------- bounds
NumProcs == 2
NumCodes == 2
NumUrls  == 2
MaxReqs  == 2

Procs == 1..NumProcs

\* ---------------------------------------------------------------- values
\* Codes are opaque text; CodeRank is their codepoint order.
CodeSamples == <<"a", "b", "c">>
Codes == {CodeSamples[i] : i \in 1..NumCodes}
\* URLCreate.code is any str, the empty one included.
EmptyCode == ""

\* URL texts are sequences of characters.
UrlSamples ==
  << <<"h", "?", "q", "#", "f">>,
     <<"h", "/", "é">>,
     <<>>,
     <<"/", "q", "&", "f", "=", "h">> >>
Urls == {UrlSamples[i] : i \in 1..NumUrls}

\* JSON / SQL values: a text or null.
Text(s) == [type |-> "text", val |-> s]
Null == [type |-> "null", val |-> <<>>]

\* The bodies an update request can carry (url_data: dict).
EmptyDict == [k \in {} |-> Null]
UrlDict(v) == [k \in {"url"} |-> v]
UpdateBodies == {EmptyDict, UrlDict(Null)} \cup {UrlDict(Text(u)) : u \in Urls}

Row(c, v) == [code |-> c, url |-> v]

\* ---------------------------------------------------------------- state
VARIABLES
  urls,      \* committed content of table urls, in rowid order
  wlock,     \* handler holding the database write lock, 0 if none
  pc,        \* position of each handler instance
  op,        \* route being served
  code,      \* code of the request (body field or path parameter)
  url_data,  \* request body of create / update
  conn,      \* TRUE while the handler's connection is open
  txn,       \* table as seen inside the handler's open transaction
  rowcount,  \* cursor.rowcount of the handler's statement
  result,    \* rows fetched by the handler's SELECT
  resp,      \* response of the handler (status 0: none yet)
  nreq       \* requests received and process starts so far

vars == <<urls, wlock, pc, op, code, url_data, conn, txn, rowcount, result, resp, nreq>>

NoResp == [status |-> 0, detail |-> "", location |-> <<>>, entries |-> <<>>]
Response(s, d) == [status |-> s, detail |-> d, location |-> <<>>, entries |-> <<>>]

\* ---------------------------------------------------------------- table
RowsOf(table, c) == SelectSeq(table, LAMBDA r : r.code = c)
HasCode(table, c) == \E i \in DOMAIN table : table[i].code = c
CodesOf(table) == {table[i].code : i \in DOMAIN table}

\* Constraints of the table definition.
NoPrimaryKey(table, c) == FALSE
PrimaryKeyConflict(table, c) == HasCode(table, c)
NoNotNull(v) == FALSE
NotNullViolation(v) == v.type = "null"

\* INSERT INTO urls (code, url) VALUES (c, v)
InsertFailsKeyIgnored(table, c, v) == NotNullViolation(v)
InsertFails(table, c, v) == PrimaryKeyConflict(table, c) \/ NotNullViolation(v)
InsertRow(table, c, v) == Append(table, Row(c, v))

\* UPDATE urls SET url = v WHERE code = c
Matching(table, c) == Len(RowsOf(table, c))
UpdateFails(table, c, v) == Matching(table, c) > 0 /\ NotNullViolation(v)
UpdateRowsSkipped(table, c, v) == table
UpdateRowsUpsert(table, c, v) ==
  IF HasCode(table, c)
  THEN [i \in DOMAIN table |-> IF table[i].code = c THEN Row(c, v) ELSE table[i]]
  ELSE Append(table, Row(c, v))
UpdateRows(table, c, v) ==
  [i \in DOMAIN table |-> IF table[i].code = c THEN Row(c, v) ELSE table[i]]

\* DELETE FROM urls WHERE code = c
DeleteRowsSkipped(table, c) == table
DeleteRowsTombstone(table, c) ==
  [i \in DOMAIN table |-> IF table[i].code = c THEN Row(c, Text(<<>>)) ELSE table[i]]
DeleteRowsAll(table, c) == IF HasCode(table, c) THEN <<>> ELSE table
DeleteRows(table, c) == SelectSeq(table, LAMBDA r : r.code # c)

\* SELECT url FROM urls WHERE code = c, then fetchone(): the first row or none.
FetchOne(table, c) ==
  IF HasCode(table, c) THEN <<Head(RowsOf(table, c))>> ELSE <<>>

\* SELECT code, url FROM urls ORDER BY code, then fetchall().
CodeRank(c) == IF c = EmptyCode THEN 0 ELSE CHOOSE i \in DOMAIN CodeSamples : CodeSamples[i] = c
RECURSIVE InsertSorted(_, _)
InsertSorted(r, sorted) ==
  IF sorted = <<>> THEN <<r>>
  ELSE IF CodeRank(r.code) < CodeRank(Head(sorted).code)
       THEN <<r>> \o sorted
       ELSE <<Head(sorted)>> \o InsertSorted(r, Tail(sorted))
OrderByRowid(table) == table
RECURSIVE OrderByCode(_)
OrderByCode(table) ==
  IF table = <<>> THEN <<>>
  ELSE InsertSorted(table[Len(table)], OrderByCode(SubSeq(table, 1, Len(table) - 1)))

\* ---------------------------------------------------------------- responses
\* RedirectResponse(url) sets Location to quote(str(url), safe=...): characters
\* outside the unreserved and the safe set are replaced by the %XX of their
\* UTF-8 bytes.
\* The letters and digits of the model's alphabet.
Unreserved == {"h", "q", "f", "m", "a", "n", "g", "e", "A", "C", "D", "F",
               "2", "3", "6", "9"}
SafeChars == {":", "/", "%", "#", "?", "=", "@", "[", "]", "!", "$", "&", "'",
              "(", ")", "*", "+", ",", ";"}
PercentEncode(ch) ==
  CASE ch = "é" -> <<"%", "C", "3", "%", "A", "9">>
    [] ch = "?" -> <<"%", "3", "F">>
    [] ch = "#" -> <<"%", "2", "3">>
    [] ch = "&" -> <<"%", "2", "6">>
    [] ch = "=" -> <<"%", "3", "D">>
QuoteChar(ch) == IF ch \in Unreserved \cup SafeChars THEN <<ch>> ELSE PercentEncode(ch)
RECURSIVE QuoteReserved(_)
QuoteReserved(s) ==
  IF s = <<>> THEN <<>>
  ELSE (IF Head(s) \in Unreserved \cup {"/"} THEN <<Head(s)>> ELSE PercentEncode(Head(s)))
       \o QuoteReserved(Tail(s))
RECURSIVE Quote(_)
Quote(s) == IF s = <<>> THEN <<>> ELSE QuoteChar(Head(s)) \o Quote(Tail(s))

ManagePath == <<"/", "m", "a", "n", "a", "g", "e">>

RedirectResponse(target) ==
  [status |-> 302, detail |-> "", location |-> Quote(target), entries |-> <<>>]
HTTPException(s, d) == Response(s, d)
\* An exception no handler catches: the framework answers 500.
InternalServerError == Response(500, "Internal Server Error")

\* "url" in url_data (line 205: KeyError otherwise)
HasUrlField(d) == "url" \in DOMAIN d

\* resolve, lines 240-244
ResolveResponseNotFound(res) ==
  IF res # <<>> THEN RedirectResponse(res[1].url.val) ELSE HTTPException(404, "Code not found")
ResolveResponse(res) ==
  IF res # <<>> THEN RedirectResponse(res[1].url.val) ELSE RedirectResponse(ManagePath)

\* update_url / delete_url, lines 215-217 and 227-229
RowcountResponseAlwaysOk(n, okmsg) == Response(200, okmsg)
RowcountResponse(n, okmsg) ==
  IF n = 0 THEN HTTPException(404, "Code not found") ELSE Response(200, okmsg)

\* ---------------------------------------------------------------- init_db
\* CREATE TABLE IF NOT EXISTS urls (...): an existing table keeps its rows.
CreateTableFresh(exists, table) == <<>>
CreateTableIfNotExists(exists, table) == IF exists THEN table ELSE <<>>

\* ---------------------------------------------------------------- Init
\* The database file outlives the process: init_db creates the table only if
\* it does not exist, so startup finds the entries of earlier runs.  Init is
\* the state after startup on a database holding one entry; the empty table
\* is reached by deleting it.
Init ==
  /\ urls = <<Row(CodeSamples[2], Text(UrlSamples[1]))>>
  /\ wlock = 0
  /\ pc = [p \in Procs |-> "idle"]
  /\ op = [p \in Procs |-> "none"]
  /\ code = [p \in Procs |-> ""]
  /\ url_data = [p \in Procs |-> EmptyDict]
  /\ conn = [p \in Procs |-> FALSE]
  /\ txn = [p \in Procs |-> <<>>]
  /\ rowcount = [p \in Procs |-> -1]
  /\ result = [p \in Procs |-> <<>>]
  /\ resp = [p \in Procs |-> NoResp]
  /\ nreq = 0

\* ---------------------------------------------------------------- get_db
\* with get_db() as conn: sqlite3.connect(DATABASE)
get_db_enter(p) == conn' = [conn EXCEPT ![p] = TRUE]

\* ---------------------------------------------------------------- requests
\* A request arrives at the first idle handler instance (the instances are
\* interchangeable).  For create, code and url_data["url"] are the two fields
\* of the validated URLCreate body.  Every handler but update_url and
\* read_root starts by entering get_db.
Receive(p, o, c, d) ==
  /\ pc[p] = "idle"
  /\ \A r \in Procs : r < p => pc[r] # "idle"
  /\ nreq < MaxReqs
  /\ nreq' = nreq + 1
  /\ op' = [op EXCEPT ![p] = o]
  /\ code' = [code EXCEPT ![p] = c]
  /\ url_data' = [url_data EXCEPT ![p] = d]
  /\ IF o \in {"update", "root"}
     THEN pc' = [pc EXCEPT ![p] = "start"] /\ UNCHANGED conn
     ELSE pc' = [pc EXCEPT ![p] = "execute"] /\ get_db_enter(p)
  /\ UNCHANGED <<urls, wlock, txn, rowcount, result, resp>>

PostShorten(p) == \E c \in Codes, u \in Urls : Receive(p, "create", c, UrlDict(Text(u)))
PutUpdate(p) == \E c \in Codes, d \in UpdateBodies : Receive(p, "update", c, d)
DeleteDelete(p) == \E c \in Codes : Receive(p, "delete", c, EmptyDict)
GetCode(p) == \E c \in Codes : Receive(p, "resolve", c, EmptyDict)
GetManage(p) == Receive(p, "manage", "", EmptyDict)

\* GET "/" + c is served by the first route that matches: "/" (read_root),
\* "/manage" (manage_page), then "/{code}" (resolve), whose parameter is a
\* non-empty path segment.
GetRouteNoRoot(c) == IF c = "manage" THEN "manage" ELSE "resolve"
GetRoute(c) ==
  IF c = EmptyCode THEN "root" ELSE IF c = "manage" THEN "manage" ELSE "resolve"
PostShortenEmpty(p) == \E u \in Urls : Receive(p, "create", EmptyCode, UrlDict(Text(u)))
GetEmptyPath(p) == Receive(p, GetRoute(EmptyCode), EmptyCode, EmptyDict)

\* finally: conn.close(); an open transaction is rolled back.
get_db_exit_leak(p) ==
  /\ pc[p] = "close"
  /\ pc' = [pc EXCEPT ![p] = "done"]
  /\ UNCHANGED <<urls, wlock, op, code, url_data, conn, txn, rowcount, result, resp, nreq>>

get_db_exit(p) ==
  /\ pc[p] = "close"
  /\ conn' = [conn EXCEPT ![p] = FALSE]
  /\ wlock' = IF wlock = p THEN 0 ELSE wlock
  /\ txn' = [txn EXCEPT ![p] = <<>>]
  /\ pc' = [pc EXCEPT ![p] = "done"]
  /\ UNCHANGED <<urls, op, code, url_data, rowcount, result, resp, nreq>>

\* The write lock is free for handler p.
CanWriteUnlocked(p) == TRUE
CanWrite(p) == wlock = 0

\* conn.commit()
CommitSkipped(p) ==
  /\ urls' = urls
  /\ wlock' = 0
Commit(p) ==
  /\ urls' = txn[p]
  /\ wlock' = 0

\* ---------------------------------------------------------------- create_short_url
create_insert(p) ==
  /\ pc[p] = "execute" /\ op[p] = "create"
  /\ CanWrite(p)
  /\ wlock' = p
  /\ IF InsertFails(urls, code[p], url_data[p]["url"])
     THEN \* sqlite3.IntegrityError -> HTTPException(400)
          /\ txn' = [txn EXCEPT ![p] = urls]
          /\ resp' = [resp EXCEPT ![p] = HTTPException(400, "Code already exists")]
          /\ pc' = [pc EXCEPT ![p] = "close"]
          /\ UNCHANGED rowcount
     ELSE /\ txn' = [txn EXCEPT ![p] = InsertRow(urls, code[p], url_data[p]["url"])]
          /\ rowcount' = [rowcount EXCEPT ![p] = 1]
          /\ pc' = [pc EXCEPT ![p] = "commit"]
          /\ UNCHANGED resp
  /\ UNCHANGED <<urls, op, code, url_data, conn, result, nreq>>

create_commit(p) ==
  /\ pc[p] = "commit" /\ op[p] = "create"
  /\ Commit(p)
  /\ resp' = [resp EXCEPT ![p] =
       [status |-> 200, detail |-> "Short URL created successfully",
        location |-> <<>>, entries |-> <<Row(code[p], url_data[p]["url"])>>]]
  /\ pc' = [pc EXCEPT ![p] = "close"]
  /\ UNCHANGED <<op, code, url_data, conn, txn, rowcount, result, nreq>>

\* ---------------------------------------------------------------- update_url
update_parse_as_not_found(p) ==
  /\ pc[p] = "start" /\ op[p] = "update"
  /\ IF HasUrlField(url_data[p])
     THEN /\ pc' = [pc EXCEPT ![p] = "execute"]
          /\ get_db_enter(p)
          /\ UNCHANGED resp
     ELSE /\ resp' = [resp EXCEPT ![p] = HTTPException(404, "Code not found")]
          /\ pc' = [pc EXCEPT ![p] = "done"]
          /\ UNCHANGED conn
  /\ UNCHANGED <<urls, wlock, op, code, url_data, txn, rowcount, result, nreq>>

update_parse(p) ==
  /\ pc[p] = "start" /\ op[p] = "update"
  /\ IF HasUrlField(url_data[p])
     THEN /\ pc' = [pc EXCEPT ![p] = "execute"]
          /\ get_db_enter(p)
          /\ UNCHANGED resp
     ELSE /\ resp' = [resp EXCEPT ![p] =
               HTTPException(500, "Missing 'url' field in request body")]
          /\ pc' = [pc EXCEPT ![p] = "done"]
          /\ UNCHANGED conn
  /\ UNCHANGED <<urls, wlock, op, code, url_data, txn, rowcount, result, nreq>>

update_execute(p) ==
  /\ pc[p] = "execute" /\ op[p] = "update"
  /\ CanWrite(p)
  /\ wlock' = p
  /\ IF UpdateFails(urls, code[p], url_data[p]["url"])
     THEN \* sqlite3.IntegrityError, not caught by update_url
          /\ txn' = [txn EXCEPT ![p] = urls]
          /\ resp' = [resp EXCEPT ![p] = InternalServerError]
          /\ pc' = [pc EXCEPT ![p] = "close"]
          /\ UNCHANGED rowcount
     ELSE /\ txn' = [txn EXCEPT ![p] = UpdateRows(urls, code[p], url_data[p]["url"])]
          /\ rowcount' = [rowcount EXCEPT ![p] = Matching(urls, code[p])]
          /\ pc' = [pc EXCEPT ![p] = "commit"]
          /\ UNCHANGED resp
  /\ UNCHANGED <<urls, op, code, url_data, conn, result, nreq>>

update_commit(p) ==
  /\ pc[p] = "commit" /\ op[p] = "update"
  /\ Commit(p)
  /\ resp' = [resp EXCEPT ![p] = RowcountResponse(rowcount[p], "URL updated successfully")]
  /\ pc' = [pc EXCEPT ![p] = "close"]
  /\ UNCHANGED <<op, code, url_data, conn, txn, rowcount, result, nreq>>

\* ---------------------------------------------------------------- delete_url
delete_execute_after_select(p) ==
  /\ pc[p] = "execute" /\ op[p] = "delete"
  /\ IF result[p] = <<>> /\ HasCode(urls, code[p])
     THEN /\ result' = [result EXCEPT ![p] = FetchOne(urls, code[p])]
          /\ UNCHANGED <<wlock, pc, txn, rowcount>>
     ELSE /\ CanWrite(p)
          /\ wlock' = p
          /\ txn' = [txn EXCEPT ![p] = DeleteRows(urls, code[p])]
          /\ rowcount' = [rowcount EXCEPT ![p] = Matching(urls, code[p])]
          /\ pc' = [pc EXCEPT ![p] = "commit"]
          /\ UNCHANGED result
  /\ UNCHANGED <<urls, op, code, url_data, conn, resp, nreq>>

delete_execute(p) ==
  /\ pc[p] = "execute" /\ op[p] = "delete"
  /\ CanWrite(p)
  /\ wlock' = p
  /\ txn' = [txn EXCEPT ![p] = DeleteRows(urls, code[p])]
  /\ rowcount' = [rowcount EXCEPT ![p] = Matching(urls, code[p])]
  /\ pc' = [pc EXCEPT ![p] = "commit"]
  /\ UNCHANGED <<urls, op, code, url_data, conn, result, resp, nreq>>

delete_commit(p) ==
  /\ pc[p] = "commit" /\ op[p] = "delete"
  /\ Commit(p)
  /\ resp' = [resp EXCEPT ![p] = RowcountResponse(rowcount[p], "Entry deleted successfully")]
  /\ pc' = [pc EXCEPT ![p] = "close"]
  /\ UNCHANGED <<op, code, url_data, conn, txn, rowcount, result, nreq>>

\* ---------------------------------------------------------------- resolve
resolve_select(p) ==
  /\ pc[p] = "execute" /\ op[p] = "resolve"
  /\ result' = [result EXCEPT ![p] = FetchOne(urls, code[p])]
  /\ resp' = [resp EXCEPT ![p] = ResolveResponse(result'[p])]
  /\ pc' = [pc EXCEPT ![p] = "close"]
  /\ UNCHANGED <<urls, wlock, op, code, url_data, conn, txn, rowcount, nreq>>

\* ---------------------------------------------------------------- manage_page
manage_select(p) ==
  /\ pc[p] = "execute" /\ op[p] = "manage"
  /\ result' = [result EXCEPT ![p] = OrderByCode(urls)]
  /\ resp' = [resp EXCEPT ![p] =
       [status |-> 200, detail |-> "", location |-> <<>>, entries |-> result'[p]]]
  /\ pc' = [pc EXCEPT ![p] = "close"]
  /\ UNCHANGED <<urls, wlock, op, code, url_data, conn, txn, rowcount, nreq>>

\* ---------------------------------------------------------------- startup_event
\* The process (re)starts between requests and runs init_db before it serves
\* again: connect, CREATE TABLE IF NOT EXISTS on the existing table, commit,
\* close.  The start is recorded in a free handler slot like a request.
startup_event(p) ==
  /\ pc[p] = "idle"
  /\ \A r \in Procs : r < p => pc[r] # "idle"
  /\ \A r \in Procs : pc[r] \in {"idle", "done"}
  /\ nreq < MaxReqs
  /\ nreq' = nreq + 1
  /\ op' = [op EXCEPT ![p] = "startup"]
  /\ urls' = CreateTableIfNotExists(TRUE, urls)
  /\ pc' = [pc EXCEPT ![p] = "done"]
  /\ UNCHANGED <<wlock, code, url_data, conn, txn, rowcount, result, resp>>

\* ---------------------------------------------------------------- read_root
read_root(p) ==
  /\ pc[p] = "start" /\ op[p] = "root"
  /\ resp' = [resp EXCEPT ![p] = Response(200, "Welcome to the FastAPI application!")]
  /\ pc' = [pc EXCEPT ![p] = "done"]
  /\ UNCHANGED <<urls, wlock, op, code, url_data, conn, txn, rowcount, result, nreq>>

\* ---------------------------------------------------------------- response sent
Respond(p) ==
  /\ pc[p] = "done"
  /\ pc' = [pc EXCEPT ![p] = "idle"]
  /\ op' = [op EXCEPT ![p] = "none"]
  /\ code' = [code EXCEPT ![p] = ""]
  /\ url_data' = [url_data EXCEPT ![p] = EmptyDict]
  /\ rowcount' = [rowcount EXCEPT ![p] = -1]
  /\ result' = [result EXCEPT ![p] = <<>>]
  /\ resp' = [resp EXCEPT ![p] = NoResp]
  /\ UNCHANGED <<urls, wlock, conn, txn, nreq>>

Next ==
  \E p \in Procs :
    \/ PostShorten(p)
    \/ PutUpdate(p)
    \/ DeleteDelete(p)
    \/ GetCode(p)
    \/ GetManage(p)
    \/ get_db_exit(p)
    \/ create_insert(p)
    \/ create_commit(p)
    \/ update_parse(p)
    \/ update_execute(p)
    \/ update_commit(p)
    \/ delete_execute(p)
    \/ delete_commit(p)
    \/ resolve_select(p)
    \/ manage_select(p)
    \/ startup_event(p)
    \/ Respond(p)

Spec == Init /\ [][Next]_vars

TypeOK ==
  /\ wlock \in 0..NumProcs
  /\ \A p \in Procs : pc[p] \in {"idle", "start", "execute", "commit", "close", "done"}
  /\ nreq \in 0..MaxReqs

\* ---------------------------------------------------------------- empty code
\* The requests of Spec together with those that carry the empty code.
NextRoot ==
  \/ Next
  \/ \E p \in Procs :
       \/ PostShortenEmpty(p)
       \/ GetEmptyPath(p)
       \/ read_root(p)

SpecRoot == Init /\ [][NextRoot]_vars

\* ---------------------------------------------------------------- race
\* Two create requests for one code c that has no entry, received together
\* and served by handlers 1 and 2 with no other request in flight; the table
\* may hold an entry of another code.
RaceTables(c) ==
  {<<>>} \cup {<<Row(d, Text(u))>> : d \in Codes \ {c}, u \in Urls}

InitRace ==
  \E c \in Codes :
    /\ urls \in RaceTables(c)
    /\ wlock = 0
    /\ pc = [r \in Procs |-> IF r \in {1, 2} THEN "execute" ELSE "idle"]
    /\ op = [r \in Procs |-> IF r \in {1, 2} THEN "create" ELSE "none"]
    /\ code = [r \in Procs |-> IF r \in {1, 2} THEN c ELSE ""]
    /\ \E u1 \in Urls, u2 \in Urls :
         url_data = [r \in Procs |-> IF r = 1 THEN UrlDict(Text(u1))
                                     ELSE IF r = 2 THEN UrlDict(Text(u2))
                                     ELSE EmptyDict]
    /\ conn = [r \in Procs |-> r \in {1, 2}]
    /\ txn = [r \in Procs |-> <<>>]
    /\ rowcount = [r \in Procs |-> -1]
    /\ result = [r \in Procs |-> <<>>]
    /\ resp = [r \in Procs |-> NoResp]
    /\ nreq = 2

NextRace ==
  \E p \in Procs :
    \/ create_insert(p)
    \/ create_commit(p)
    \/ get_db_exit(p)

SpecRace == InitRace /\ [][NextRace]_vars

\* ---------------------------------------------------------------- properties
StoredUrl(table, c) == Head(RowsOf(table, c)).url

\* Handler p executes its statement / commits / takes any step in this step.
Executes(p, o) == op[p] = o /\ pc[p] = "execute" /\ pc'[p] # "execute"
Commits(p, o) == op[p] = o /\ pc[p] = "commit" /\ pc'[p] # "commit"
Steps(p) == pc'[p] # pc[p]

CodeExists == HTTPException(400, "Code already exists")
NotFound == HTTPException(404, "Code not found")
MissingField == HTTPException(500, "Missing 'url' field in request body")

\* C1: a create whose code has an entry fails with 400 "Code already exists",
\* and neither its statement nor any later step of the failed request changes
\* the table, so the stored URL stays the one resolve redirects to.
C1_DuplicateCreateRejected ==
  [][\A p \in Procs :
       /\ (Executes(p, "create") /\ HasCode(urls, code[p]))
            => /\ resp'[p] = CodeExists
               /\ pc'[p] = "close"
               /\ urls' = urls
       /\ (Steps(p) /\ op[p] = "create" /\ resp[p] = CodeExists)
            => /\ urls' = urls
               /\ resp'[p] \in {CodeExists, NoResp}]_vars

C1_Witness ==
  \E p \in Procs :
    /\ op[p] = "create" /\ pc[p] = "done" /\ resp[p] = CodeExists
    /\ HasCode(urls, code[p])
    /\ StoredUrl(urls, code[p]) # url_data[p]["url"]

\* C2: of two concurrent creates of one absent code exactly one returns 200
\* and the other 400 "Code already exists"; they never both succeed, never
\* both fail, no other outcome occurs, and the entry holds the winner's URL.
C2_ExactlyOneCreateWins ==
  \A p \in Procs, q \in Procs :
    (p # q /\ op[p] = "create" /\ op[q] = "create") =>
      /\ ~(resp[p].status = 200 /\ resp[q].status = 200)
      /\ ~(resp[p] = CodeExists /\ resp[q] = CodeExists)
      /\ resp[p].status \in {0, 200, 400}
      /\ (pc[p] = "done" /\ pc[q] = "done") =>
           /\ {resp[p].status, resp[q].status} = {200, 400}
           /\ Matching(urls, code[p]) = 1
           /\ resp[p].status = 200 => StoredUrl(urls, code[p]) = url_data[p]["url"]

C2_Witness ==
  \E p \in Procs, q \in Procs :
    /\ p < q /\ op[p] = "create" /\ op[q] = "create"
    /\ pc[p] = "done" /\ pc[q] = "done"
    /\ resp[q].status = 200 /\ resp[p] = CodeExists
    /\ url_data[p] # url_data[q]

\* C3: the table never holds two rows with the same code, neither in its
\* committed content nor inside an open transaction.
UniqueCodes(table) ==
  \A i \in DOMAIN table, j \in DOMAIN table : i # j => table[i].code # table[j].code

C3_UniqueCodes ==
  /\ UniqueCodes(urls)
  /\ \A p \in Procs : UniqueCodes(txn[p])

C3_Witness ==
  /\ Len(urls) >= 2
  /\ \E p \in Procs : op[p] = "create" /\ resp[p] = CodeExists

\* C4: an update with a URL text whose code has an entry is committed, answers
\* 200 "URL updated successfully" and leaves the new URL stored for the code;
\* a resolve of a code redirects to the URL stored for it at that moment, so
\* after the update it is the new URL and not the one stored before.
C4_UpdateThenResolve ==
  [][\A p \in Procs :
       /\ (Executes(p, "update") /\ HasCode(urls, code[p])
             /\ url_data[p]["url"].type = "text")
            => pc'[p] = "commit" /\ rowcount'[p] = 1
       /\ (Commits(p, "update") /\ HasCode(urls, code[p]))
            => /\ resp'[p] = Response(200, "URL updated successfully")
               /\ HasCode(urls', code[p])
               /\ StoredUrl(urls', code[p]) = url_data[p]["url"]
       /\ (Executes(p, "resolve") /\ HasCode(urls, code[p]))
            => /\ resp'[p].status = 302
               /\ resp'[p].location = Quote(StoredUrl(urls, code[p]).val)]_vars

C4_Witness ==
  \E p \in Procs, q \in Procs :
    /\ op[p] = "update" /\ pc[p] = "done" /\ resp[p].status = 200
    /\ op[q] = "resolve" /\ pc[q] = "done" /\ code[q] = code[p]
    /\ resp[q].location = Quote(url_data[p]["url"].val)
    /\ StoredUrl(urls, code[p]) = url_data[p]["url"]

\* C5: an update or a delete whose code has no entry answers 404 "Code not
\* found", and no step of such a request changes the table.
C5_NotFoundLeavesStore ==
  [][\A p \in Procs :
       (op[p] \in {"update", "delete"} /\ Steps(p) /\ ~HasCode(urls, code[p]))
         => /\ urls' = urls
            /\ pc[p] = "execute" => pc'[p] = "commit" /\ rowcount'[p] = 0
            /\ pc[p] = "commit" => resp'[p] = NotFound]_vars

C5_Witness ==
  \E p \in Procs, q \in Procs :
    /\ op[q] = "delete" /\ pc[q] = "done" /\ resp[q].status = 200
    /\ op[p] = "update" /\ pc[p] = "done" /\ resp[p] = NotFound
    /\ code[p] = code[q] /\ HasUrlField(url_data[p])
    /\ ~HasCode(urls, code[p])

\* C6: a delete answers 200 exactly when its code has an entry at its commit,
\* and then the entry is gone; otherwise it answers 404.  An absent code gets
\* an entry again only by the commit of a successful create.  The row count a
\* delete reports is the number of rows its commit removes, so two deletes of
\* one entry never both report success.
C6_DeleteOnce ==
  /\ [](\A p \in Procs :
          (op[p] = "delete" /\ pc[p] = "commit")
            => rowcount[p] = Matching(urls, code[p]))
  /\ [][/\ \A p \in Procs :
            Commits(p, "delete") =>
              IF HasCode(urls, code[p])
              THEN resp'[p].status = 200 /\ ~HasCode(urls', code[p])
              ELSE resp'[p] = NotFound /\ urls' = urls
        /\ \A c \in Codes :
            (~HasCode(urls, c) /\ HasCode(urls', c))
              => \E p \in Procs :
                   Commits(p, "create") /\ code[p] = c /\ resp'[p].status = 200]_vars

C6_Witness ==
  \E p \in Procs, q \in Procs :
    /\ op[q] = "delete" /\ pc[q] = "done" /\ resp[q].status = 200
    /\ op[p] = "delete" /\ pc[p] = "done" /\ resp[p] = NotFound
    /\ code[p] = code[q]

\* C7 as stated: a create stores its URL unchanged and a resolve of the code
\* redirects to a target that is exactly the stored URL text.
C7_ExactTarget ==
  [][\A p \in Procs :
       /\ Commits(p, "create")
            => HasCode(urls', code[p]) /\ StoredUrl(urls', code[p]) = url_data[p]["url"]
       /\ (Executes(p, "resolve") /\ HasCode(urls, code[p]))
            => /\ resp'[p].status = 302
               /\ resp'[p].location = StoredUrl(urls, code[p]).val]_vars

\* C7 as amended: a create stores its URL unchanged; a resolve of the code
\* redirects to the stored URL with every character outside the letters,
\* digits and :/%#?=@[]!$&'()*+,; replaced by the %XX of its UTF-8 bytes, which
\* is exactly the stored URL when it has no such character (the empty URL and
\* URLs with a query string or a fragment included).
AllSafe(s) == \A i \in DOMAIN s : s[i] \in Unreserved \cup SafeChars

C7_QuotedTarget ==
  [][\A p \in Procs :
       /\ Commits(p, "create")
            => HasCode(urls', code[p]) /\ StoredUrl(urls', code[p]) = url_data[p]["url"]
       /\ (Executes(p, "resolve") /\ HasCode(urls, code[p]))
            => LET u == StoredUrl(urls, code[p]).val
               IN /\ resp'[p].status = 302
                  /\ AllSafe(u) => resp'[p].location = u
                  /\ u = <<"h", "/", "é">>
                       => resp'[p].location = <<"h", "/", "%", "C", "3", "%", "A", "9">>]_vars

C7_Witness ==
  \E p \in Procs :
    /\ op[p] = "resolve" /\ pc[p] = "done" /\ HasCode(urls, code[p])
    /\ ~AllSafe(StoredUrl(urls, code[p]).val)
    /\ resp[p].status = 302
    /\ resp[p].location # StoredUrl(urls, code[p]).val

\* C8: a resolve of a code without entry answers 302 to /manage, and no step
\* of a resolve request changes the table or takes the write lock.
C8_ResolveFallback ==
  [][\A p \in Procs :
       (op[p] = "resolve" /\ Steps(p))
         => /\ urls' = urls
            /\ wlock' = wlock
            /\ (pc[p] = "execute" /\ ~HasCode(urls, code[p]))
                 => /\ resp'[p].status = 302
                    /\ resp'[p].location = ManagePath]_vars

C8_Witness ==
  \E p \in Procs, q \in Procs :
    /\ op[q] = "delete" /\ pc[q] = "done" /\ resp[q].status = 200
    /\ op[p] = "resolve" /\ pc[p] = "done" /\ code[p] = code[q]
    /\ resp[p].status = 302 /\ resp[p].location = ManagePath
    /\ ~HasCode(urls, code[p])

\* C9: a code gets an entry only by the commit of a create answering 200 and
\* loses it only by the commit of a delete answering 200; the steps of update,
\* resolve and manage requests leave the set of stored codes and the number
\* of rows as they are, and a step on one code leaves the other codes' presence.
C9_OnlyCreateAndDelete ==
  [][/\ \A c \in Codes :
          /\ (~HasCode(urls, c) /\ HasCode(urls', c))
               => \E p \in Procs :
                    Commits(p, "create") /\ code[p] = c /\ resp'[p].status = 200
          /\ (HasCode(urls, c) /\ ~HasCode(urls', c))
               => \E p \in Procs :
                    Commits(p, "delete") /\ code[p] = c /\ resp'[p].status = 200
     /\ \A p \in Procs :
          (Steps(p) /\ op[p] \in {"update", "resolve", "manage"})
            => CodesOf(urls') = CodesOf(urls) /\ Len(urls') = Len(urls)]_vars

C9_Witness ==
  \E p \in Procs :
    /\ op[p] = "update" /\ pc[p] = "done" /\ resp[p] = NotFound
    /\ HasUrlField(url_data[p]) /\ url_data[p]["url"].type = "text"
    /\ ~HasCode(urls, code[p])
    /\ Len(urls) >= 1

\* C10: an update whose body has no url field answers 500 "Missing 'url' field
\* in request body", never 404, whether or not its code has an entry; it
\* never opens a connection, and its steps leave the table and the lock alone.
C10_MissingField ==
  /\ [](\A p \in Procs :
          (op[p] = "update" /\ ~HasUrlField(url_data[p]))
            => /\ ~conn[p]
               /\ pc[p] \in {"start", "done"}
               /\ pc[p] = "done" => resp[p] = MissingField /\ resp[p] # NotFound)
  /\ [][\A p \in Procs :
          (op[p] = "update" /\ ~HasUrlField(url_data[p]) /\ Steps(p))
            => urls' = urls /\ wlock' = wlock /\ txn' = txn]_vars

C10_Witness ==
  \E p \in Procs :
    /\ op[p] = "update" /\ pc[p] = "done" /\ resp[p] = MissingField
    /\ HasCode(urls, code[p])

\* C11: the management query answers 200 with exactly the rows of the table,
\* each once, in strictly ascending order of code whatever their insertion
\* order; on an empty table it answers the empty sequence.
SortedByCode(rows) ==
  \A i \in DOMAIN rows, j \in DOMAIN rows :
    i < j => CodeRank(rows[i].code) < CodeRank(rows[j].code)

C11_ListSorted ==
  [][\A p \in Procs :
       Executes(p, "manage")
         => /\ resp'[p].status = 200
            /\ Len(resp'[p].entries) = Len(urls)
            /\ {resp'[p].entries[i] : i \in DOMAIN resp'[p].entries}
                 = {urls[i] : i \in DOMAIN urls}
            /\ SortedByCode(resp'[p].entries)
            /\ urls = <<>> => resp'[p].entries = <<>>
            /\ urls' = urls]_vars

C11_Witness ==
  \E p \in Procs :
    /\ op[p] = "manage" /\ pc[p] = "done" /\ resp[p].status = 200
    /\ Len(urls) >= 2 /\ ~SortedByCode(urls)
    /\ resp[p].entries # urls
    /\ Len(resp[p].entries) = Len(urls)

\* A handler run alone from table to its end: the table it leaves and the
\* response it returns (create_short_url, update_url, delete_url, resolve).
CreatedResponse(c, v) ==
  [status |-> 200, detail |-> "Short URL created successfully",
   location |-> <<>>, entries |-> <<Row(c, v)>>]

SeqTable(o, c, d, table) ==
  CASE o = "create" ->
         IF InsertFails(table, c, d["url"]) THEN table ELSE InsertRow(table, c, d["url"])
    [] o = "update" ->
         IF ~HasUrlField(d) \/ UpdateFails(table, c, d["url"])
         THEN table ELSE UpdateRows(table, c, d["url"])
    [] o = "delete" -> DeleteRows(table, c)
    [] OTHER -> table

SeqResp(o, c, d, table) ==
  CASE o = "create" ->
         IF InsertFails(table, c, d["url"]) THEN CodeExists ELSE CreatedResponse(c, d["url"])
    [] o = "update" ->
         IF ~HasUrlField(d) THEN MissingField
         ELSE IF UpdateFails(table, c, d["url"]) THEN InternalServerError
         ELSE RowcountResponse(Matching(table, c), "URL updated successfully")
    [] o = "delete" -> RowcountResponse(Matching(table, c), "Entry deleted successfully")
    [] o = "resolve" -> ResolveResponse(FetchOne(table, c))

\* C12: every create, update, delete and resolve request takes effect at one
\* step between its receipt and its response: the step that fixes its
\* response.  At that step the response and the table are those of the
\* handler run alone on the table of that moment; no other step of the request
\* changes the table, and the response, once fixed, is the one returned.  The
\* outcomes and the final table are therefore those of the sequential
\* execution of the requests in the order of these steps.
C12_Linearizable ==
  [][\A p \in Procs :
       (Steps(p) /\ op[p] \in {"create", "update", "delete", "resolve"})
         => IF resp[p] = NoResp /\ resp'[p] # NoResp
            THEN /\ resp'[p] = SeqResp(op[p], code[p], url_data[p], urls)
                 /\ urls' = SeqTable(op[p], code[p], url_data[p], urls)
            ELSE /\ urls' = urls
                 /\ resp[p] # NoResp => resp'[p] = IF pc[p] = "done" THEN NoResp ELSE resp[p]
                 /\ pc'[p] = "done" => resp'[p] # NoResp]_vars

C12_Witness ==
  \E p \in Procs, q \in Procs :
    /\ op[p] = "delete" /\ pc[p] = "close" /\ resp[p].status = 200
    /\ op[q] = "create" /\ code[q] = code[p] /\ pc[q] = "commit"
    /\ HasCode(txn[q], code[q]) /\ ~HasCode(urls, code[q])

\* C13: no step of a create, update or delete on code C, succeeding or
\* failing, changes the row of any other code D; and its response is the one
\* the handler returns when run alone on the rows of C only, so it does not
\* depend on what is stored, or was done, for D.
C13_OtherCodesUntouched ==
  [][\A p \in Procs :
       (Steps(p) /\ op[p] \in {"create", "update", "delete"})
         => /\ \A d \in (CodesOf(urls) \cup CodesOf(urls')) \ {code[p]} :
                 RowsOf(urls', d) = RowsOf(urls, d)
            /\ (resp[p] = NoResp /\ resp'[p] # NoResp)
                 => resp'[p] = SeqResp(op[p], code[p], url_data[p], RowsOf(urls, code[p]))]_vars

C13_Witness ==
  \E p \in Procs, q \in Procs, d \in Codes :
    /\ op[p] = "delete" /\ pc[p] = "done" /\ resp[p].status = 200
    /\ op[q] = "create" /\ pc[q] = "done" /\ resp[q].status = 200
    /\ code[q] = d /\ d # code[p]
    /\ ~HasCode(urls, code[p])
    /\ HasCode(urls, d) /\ StoredUrl(urls, d) = url_data[q]["url"]

\* C14: every finished request has one of its documented outcomes: create
\* 200 or 400 "Code already exists"; update with a url field 200 or 404 "Code
\* not found"; delete 200 or 404; resolve a 302 redirect; the management
\* query 200.  No storage error is answered as an internal failure.
C14_DocumentedOutcomes ==
  \A p \in Procs :
    pc[p] = "done" =>
      CASE op[p] = "create" -> resp[p].status = 200 \/ resp[p] = CodeExists
        [] op[p] = "update" ->
             HasUrlField(url_data[p])
               => resp[p] \in {Response(200, "URL updated successfully"), NotFound}
        [] op[p] = "delete" ->
             resp[p] \in {Response(200, "Entry deleted successfully"), NotFound}
        [] op[p] = "resolve" -> resp[p].status = 302
        [] op[p] = "manage" -> resp[p].status = 200
        [] OTHER -> TRUE

\* C15: a handler's connection is open only between entering get_db and
\* leaving it; a request that has its response (on the success path, after
\* 400 or 404, and after an uncaught storage error alike) or has not yet
\* entered get_db holds no connection, no open transaction and no write lock.
\* When no request is in progress no connection is open and the lock is free.
OpenConnections == {p \in Procs : conn[p]}

C16_OneStatement ==
  /\ [](\A p \in Procs :
          op[p] \in {"create", "update", "delete"} => result[p] = <<>>)
  /\ [][\A p \in Procs :
          /\ pc[p] \in {"commit", "close", "done"} => pc'[p] \notin {"start", "execute"}
          /\ pc[p] # "execute"
               => /\ rowcount'[p] \in {rowcount[p], -1}
                  /\ result'[p] \in {result[p], <<>>}
                  /\ txn'[p] \in {txn[p], <<>>}
          /\ (Executes(p, "update") \/ Executes(p, "delete"))
               => (pc'[p] = "commit" => rowcount'[p] = Matching(urls, code[p]))
          /\ Executes(p, "create")
               => (pc'[p] = "commit" <=> ~HasCode(urls, code[p]))
          /\ (Commits(p, "update") \/ Commits(p, "delete"))
               => (resp'[p] = NotFound <=> rowcount[p] = 0)]_vars

C16_Witness ==
  \E p \in Procs, q \in Procs :
    /\ op[p] = "delete" /\ pc[p] = "done" /\ resp[p].status = 200
    /\ rowcount[p] = 1 /\ result[p] = <<>>
    /\ op[q] = "update" /\ pc[q] = "done" /\ resp[q] = NotFound
    /\ rowcount[q] = 0 /\ result[q] = <<>>

\* C17: a create with the empty code on a table without it is committed and
\* answers 200, and the management query then lists the entry; a GET of the
\* empty path is served by read_root, which answers 200 without a redirect
\* and without reading the table, so no resolve request ever carries the
\* empty code and no resolve answers from the entry of the empty code.
C17_EmptyCodeUnreachable ==
  /\ [](\A p \in Procs :
          /\ op[p] = "resolve" => code[p] # EmptyCode
          /\ op[p] = "root" => ~conn[p] /\ result[p] = <<>> /\ resp[p].status \in {0, 200})
  /\ [][\A p \in Procs :
          /\ (Executes(p, "create") /\ code[p] = EmptyCode /\ ~HasCode(urls, EmptyCode))
               => pc'[p] = "commit"
          /\ (Commits(p, "create") /\ code[p] = EmptyCode)
               => /\ resp'[p].status = 200
                  /\ HasCode(urls', EmptyCode)
                  /\ StoredUrl(urls', EmptyCode) = url_data[p]["url"]
          /\ (Executes(p, "manage") /\ HasCode(urls, EmptyCode))
               => \E i \in DOMAIN resp'[p].entries :
                    resp'[p].entries[i] = Head(RowsOf(urls, EmptyCode))
          /\ Executes(p, "resolve")
               => \A i \in DOMAIN result'[p] : result'[p][i].code # EmptyCode
          /\ (Steps(p) /\ op[p] = "root")
               => urls' = urls /\ resp'[p].location = <<>>]_vars

C17_Witness ==
  \E p \in Procs, q \in Procs :
    /\ op[p] = "create" /\ code[p] = EmptyCode /\ pc[p] = "done" /\ resp[p].status = 200
    /\ HasCode(urls, EmptyCode) /\ StoredUrl(urls, EmptyCode) = url_data[p]["url"]
    /\ op[q] = "root" /\ pc[q] = "done" /\ resp[q].status = 200

\* C18: the commit of a successful delete leaves no row of the code; a create
\* of a code without row is committed whatever was stored for it before and
\* leaves exactly the row of its own URL; a resolve of the code then
\* redirects to that URL.
C18_DeletedCodeReusable ==
  [][\A p \in Procs :
       /\ (Commits(p, "delete") /\ HasCode(urls, code[p]))
            => resp'[p].status = 200 /\ RowsOf(urls', code[p]) = <<>>
       /\ (Executes(p, "create") /\ RowsOf(urls, code[p]) = <<>>)
            => pc'[p] = "commit" /\ resp'[p] = NoResp
       /\ Commits(p, "create")
            => /\ resp'[p] = CreatedResponse(code[p], url_data[p]["url"])
               /\ RowsOf(urls', code[p]) = <<Row(code[p], url_data[p]["url"])>>
       /\ (Executes(p, "resolve") /\ HasCode(urls, code[p]))
            => resp'[p] = RedirectResponse(Head(RowsOf(urls, code[p])).url.val)]_vars

C18_Witness ==
  \E p \in Procs, q \in Procs :
    /\ op[p] = "delete" /\ pc[p] = "done" /\ resp[p].status = 200
    /\ op[q] = "create" /\ pc[q] = "done" /\ resp[q].status = 200
    /\ code[q] = code[p] /\ code[p] = CodeSamples[2]
    /\ url_data[q]["url"] # Text(UrlSamples[1])
    /\ RowsOf(urls, code[q]) = <<Row(code[q], url_data[q]["url"])>>

\* C19: a start of the process on a table that holds entries, once or
\* repeatedly and between any two requests, leaves every row (code and URL,
\* in place) as it was, and leaves no lock or transaction behind.
Starts(p) == op[p] # "startup" /\ op'[p] = "startup"

C19_InitKeepsEntries ==
  [][\A p \in Procs :
       Starts(p) => urls' = urls /\ wlock' = wlock /\ txn' = txn /\ conn' = conn]_vars

C19_Witness ==
  \E p \in Procs, q \in Procs :
    /\ op[q] = "create" /\ pc[q] = "done" /\ resp[q].status = 200
    /\ op[p] = "startup" /\ pc[p] = "done"
    /\ Len(urls) = 2
    /\ urls[1] = Row(CodeSamples[2], Text(UrlSamples[1]))
    /\ urls[2] = Row(code[q], url_data[q]["url"])

\* C20: every row of the table, committed or inside an open transaction, has
\* a text URL, also after update requests whose url field is null (rejected
\* on an existing code, without effect on an absent one); a resolve of a
\* code that has an entry therefore always redirects to its URL.
AllUrlsPresent(table) == \A i \in DOMAIN table : table[i].url.type = "text"

C20_UrlNeverNull ==
  /\ [](AllUrlsPresent(urls) /\ \A p \in Procs : AllUrlsPresent(txn[p]))
  /\ [][\A p \in Procs :
          /\ (Steps(p) /\ op[p] = "update" /\ HasUrlField(url_data[p])
                /\ url_data[p]["url"] = Null)
               => urls' = urls
          /\ (Executes(p, "resolve") /\ HasCode(urls, code[p]))
               => /\ resp'[p].status = 302
                  /\ StoredUrl(urls, code[p]).type = "text"
                  /\ resp'[p].location = Quote(StoredUrl(urls, code[p]).val)]_vars

C20_Witness ==
  \E p \in Procs, q \in Procs :
    /\ op[p] = "update" /\ pc[p] = "done" /\ url_data[p] = UrlDict(Null)
    /\ resp[p] = InternalServerError
    /\ op[q] = "resolve" /\ pc[q] = "done" /\ code[q] = code[p]
    /\ HasCode(urls, code[p])
    /\ resp[q].location = Quote(StoredUrl(urls, code[p]).val)

====
